---- MODULE Spec2Model ----
(***************************************************************************)
(* A model of the BarreraLabDrivers instrument drivers:                    *)
(*   - utils/param_utils.py      paramp, the linear ramp helper            *)
(*   - drivers/DCDAC_5764.py     the 8-channel DC DAC                       *)
(*   - drivers/ACDAC_9106.py     the 4-channel AC DAC                       *)
(*   - drivers/Yokogawa_GS820.py the two-channel source-measure unit       *)
(*   - drivers/Keithley_6500.py  the multimeter                            *)
(* Each subsystem keeps its state in one record variable and has its own   *)
(* specification; the other records stay at their idle value.  `build`    *)
(* is the construction of an instrument and of its channel objects.       *)
(***************************************************************************)
EXTENDS Integers, Sequences, FiniteSets, TLC

VARIABLES ramp, dac, yoko, build, keithley

vars == <<ramp, dac, yoko, build, keithley>>

\* No instrument is being constructed.
BuildIdle == [pc |-> "idle"]

\* No Keithley 6500 is connected.
KeithleyIdle == [pc |-> "idle"]

(***************************************************************************)
(* Values.  A number is a fraction [num, den] with den > 0, so that the    *)
(* evenly spaced samples of numpy.linspace are exact.                      *)
(***************************************************************************)
Frac(a, b) == [num |-> a, den |-> b]

Whole(a) == Frac(a, 1)

ValEq(x, y) == x.num * y.den = y.num * x.den

(***************************************************************************)
(* paramp (utils/param_utils.py)                                           *)
(***************************************************************************)

\* Largest number of parameters handed to paramp, largest `steps`.
MaxParams == 2

MaxSteps == 3

\* Values the parameters hold before the call, and values given in `final`.
StartVals == {-1, 2}

FinalVals == {0, 3}

RampIdle == [pc |-> "idle"]

\* numpy.linspace(start, stop, num, endpoint=False): the spacing is
\* (stop - start) / num and stop is not among the samples.
LinspaceNoEndpoint(start, stop, num) ==
    [j \in 1..num |-> Frac(start * num + (j - 1) * (stop - start), num)]

\* numpy.linspace(start, stop, num): num samples, the first is start, the
\* spacing is (stop - start) / div with div = num - 1 (for num = 1 the one
\* sample is start), and for num > 1 the last sample is set to stop.
Linspace(start, stop, num) ==
    LET div == IF num > 1 THEN num - 1 ELSE 1
    IN  [j \in 1..num |->
            IF j = num /\ num > 1
            THEN Frac(stop * div, div)
            ELSE Frac(start * div + (j - 1) * (stop - start), div)]

\* A ramp to zero whatever `final` holds.
EndpointZero(r, i) == 0

\* The endpoint of parameter i: final[i] when `final` is given (lines 26,
\* 35-40), 0 when it is left at its default (0) (lines 43-46).
Endpoint(r, i) == IF r.finalGiven THEN r.final[i] ELSE 0

\* The states in which paramp is called: its arguments and the values the
\* parameters hold.  applied[j] lists the values applied to parameter j,
\* at[j] the number of sleeps that had ended when each was applied, and
\* reads counts the reads par() of the parameters.  The single-callable form has one parameter and a scalar
\* `final`; the tuple form has 1..MaxParams parameters and a tuple `final`
\* of any length up to MaxParams.
RampCall(f, s, g, fin, st, t) ==
    [pc |-> "called", form |-> f, n |-> Len(s), init |-> s, finalGiven |-> g,
     final |-> fin, steps |-> st, track |-> t, i |-> 1, k |-> 1,
     points |-> <<>>, store |-> [j \in 1..Len(s) |-> Whole(s[j])],
     applied |-> [j \in 1..Len(s) |-> <<>>],
     at |-> [j \in 1..Len(s) |-> <<>>], sleeps |-> 0, reads |-> 0,
     err |-> "none"]

Tuples(S) == UNION {[1..m -> S] : m \in 1..MaxParams}

RampInit ==
    \* paramp(par, final, steps, sleep_time) and paramp(par, steps=...)
    { RampCall("callable", s, g, fin, st, TRUE) :
        s \in [1..1 -> StartVals], g \in BOOLEAN, fin \in [1..1 -> FinalVals],
        st \in 0..MaxSteps }
    \cup
    \* paramp((par1, ...), (final1, ...), steps, sleep_time, track)
    { RampCall("tuple", s, TRUE, fin, st, t) :
        s \in Tuples(StartVals), fin \in Tuples(FinalVals),
        st \in 0..MaxSteps, t \in BOOLEAN }
    \cup
    \* paramp((par1, ...), steps=..., track=...): final is left at (0)
    { RampCall("tuple", s, FALSE, <<0>>, st, t) :
        s \in Tuples(StartVals), st \in 0..MaxSteps, t \in BOOLEAN }

\* The sequential loop with its two loops exchanged: one sample of every
\* parameter in turn.
SeqNextInterleaved(i, k, n, steps) ==
    [i |-> IF i < n THEN i + 1 ELSE 1,
     k |-> IF i < n THEN k ELSE k + 1,
     done |-> (i = n /\ k = steps),
     sleep |-> 1]

\* The position after applying sample k of parameter i in the sequential
\* loop (lines 58-62): the next sample of the same parameter, then the
\* first sample of the next parameter; a sleep follows every application.
SeqNext(i, k, n, steps) ==
    [i |-> IF k < steps THEN i ELSE i + 1,
     k |-> IF k < steps THEN k + 1 ELSE 1,
     done |-> (k = steps /\ i = n),
     sleep |-> 1]

\* The lockstep loop with its two loops exchanged: every sample of one
\* parameter, then the next parameter.
TrackNextNested(i, k, n, steps) ==
    [i |-> IF k < steps THEN i ELSE i + 1,
     k |-> IF k < steps THEN k + 1 ELSE 1,
     done |-> (k = steps /\ i = n),
     sleep |-> IF i = n THEN 1 ELSE 0]

\* The lockstep loop with its sleep moved into the inner loop: a sleep
\* follows every application.
TrackNextSleepEach(i, k, n, steps) ==
    [i |-> IF i < n THEN i + 1 ELSE 1,
     k |-> IF i < n THEN k ELSE k + 1,
     done |-> (i = n /\ k = steps),
     sleep |-> 1]

\* The position after applying sample k of parameter i in the lockstep loop
\* (lines 50-54): the same sample of the next parameter, then the next
\* sample of the first parameter; a sleep ends every step.
TrackNext(i, k, n, steps) ==
    [i |-> IF i < n THEN i + 1 ELSE 1,
     k |-> IF i < n THEN k ELSE k + 1,
     done |-> (i = n /\ k = steps),
     sleep |-> IF i = n THEN 1 ELSE 0]

\* An exception handler that drops the error and goes on with the loop.
SetErrorSwallowed(r) ==
    LET nx == IF r.form = "tuple" /\ ~r.track
              THEN SeqNext(r.i, r.k, r.n, r.steps)
              ELSE TrackNext(r.i, r.k, r.n, r.steps)
    IN  [r EXCEPT !.err = "SetError", !.i = nx.i, !.k = nx.k,
                  !.pc = IF nx.done THEN "done" ELSE "loop"]

\* par(point) raises: nothing in paramp catches it, the call ends there.
SetErrorRaised(r) == [r EXCEPT !.pc = "raised", !.err = "SetError"]

\* A length check made where final[i] is used: the parameters before the
\* first missing endpoint are read, then the call raises.
PointsLateCheck(r) ==
    IF r.form = "tuple" /\ r.finalGiven /\ Len(r.final) # r.n
    THEN [r EXCEPT !.pc = "raised", !.err = "ValueError",
                   !.reads = IF Len(r.final) < r.n THEN Len(r.final) + 1
                             ELSE r.n]
    ELSE [r EXCEPT
            !.points = [j \in 1..r.n |->
                Linspace(r.store[j].num, Endpoint(r, j), r.steps)],
            !.reads = r.n,
            !.pc = IF r.steps = 0 THEN "done" ELSE "loop"]

\* Lines 25-26 and 32-46: the length check of `final` (lines 36-37), then
\* the read par() of every parameter and the samples of each.
Points(r) ==
    IF r.form = "tuple" /\ r.finalGiven /\ Len(r.final) # r.n
    THEN [r EXCEPT !.pc = "raised", !.err = "ValueError"]
    ELSE [r EXCEPT
            !.points = [j \in 1..r.n |->
                Linspace(r.store[j].num, Endpoint(r, j), r.steps)],
            !.reads = r.n,
            !.pc = IF r.steps = 0 THEN "done" ELSE "loop"]

ParampBegin ==
    /\ ramp.pc = "called"
    /\ ramp' = Points(ramp)
    /\ UNCHANGED <<dac, yoko, build, keithley>>

\* One pass of the innermost loop body: par(point) (lines 28, 53, 61) and
\* the sleep that follows it (lines 29, 54, 62).
ParampApply ==
    /\ ramp.pc = "loop"
    /\ LET i  == ramp.i
           pt == ramp.points[i][ramp.k]
           nx == IF ramp.form = "tuple" /\ ~ramp.track
                 THEN SeqNext(i, ramp.k, ramp.n, ramp.steps)
                 ELSE TrackNext(i, ramp.k, ramp.n, ramp.steps)
       IN  ramp' = [ramp EXCEPT
                !.store[i] = pt,
                !.applied[i] = Append(@, pt),
                !.at[i] = Append(@, ramp.sleeps),
                !.sleeps = @ + nx.sleep,
                !.i = nx.i, !.k = nx.k,
                !.pc = IF nx.done THEN "done" ELSE "loop"]
    /\ UNCHANGED <<dac, yoko, build, keithley>>

\* par(point) raises (a validator, the transport): see SetErrorRaised.
ParampSetRaises ==
    /\ ramp.pc = "loop"
    /\ ramp.err = "none"
    /\ ramp' = SetErrorRaised(ramp)
    /\ UNCHANGED <<dac, yoko, build, keithley>>

(***************************************************************************)
(* The DACs (drivers/DCDAC_5764.py, drivers/ACDAC_9106.py)                 *)
(*                                                                         *)
(* dac.volt, dac.offset and dac.step are the instrument's registers,       *)
(* dac.op, dac.err, dac.ret and dac.sent describe the last call of the     *)
(* driver: what was called, the exception it raised, the value it returned *)
(* and the commands it sent, in order.  dac.lastSet is the value of the    *)
(* last voltage set the driver accepted on each channel.  Voltages are in  *)
(* the unit of the parameter (V for the DC DAC, mV for the AC DAC).        *)
(***************************************************************************)

\* Number of driver calls explored after construction.
MaxDacOps == 3

DCChannels == 8

ACChannels == 4

DCVoltMin == -10

DCVoltMax == 10

ACVoltMin == 0

ACVoltMax == 450

OffsetMin == -128

OffsetMax == 127

StepMin == -32

StepMax == 31

\* The display mode REMOTE of the AC DAC (val_mapping).
DisplayRemote == 5

DacIdle == [pc |-> "idle"]

DacChans(dev) == IF dev = "DC" THEN 1..DCChannels ELSE 1..ACChannels

\* A command or query, the channel it names (0: none) and its argument.
Cmd(name, ch, arg) == [cmd |-> name, ch |-> ch, arg |-> arg]

\* A range check that rejects its two bounds.
InRangeExclusive(lo, hi, v) == lo < v /\ v < hi

\* qcodes.validators.Numbers(lo, hi) and Ints(lo, hi): lo <= v <= hi, or
\* ValueError.
InRange(lo, hi, v) == lo <= v /\ v <= hi

\* vals= of the parameter `name` of a channel of `dev`.
ParamVals(dev, name) ==
    CASE name = "voltage" /\ dev = "DC" -> [lo |-> DCVoltMin, hi |-> DCVoltMax]
      [] name = "voltage" /\ dev = "AC" -> [lo |-> ACVoltMin, hi |-> ACVoltMax]
      [] name = "offset" -> [lo |-> OffsetMin, hi |-> OffsetMax]
      [] name = "step" -> [lo |-> StepMin, hi |-> StepMax]

Validate(dev, name, v) ==
    InRange(ParamVals(dev, name).lo, ParamVals(dev, name).hi, v)

\* A query that names the first channel whatever the channel object.
VoltageQueryFirst(dev, c) == Cmd("VOLTAGE?", 1, 0)

\* get_cmd of voltage: "{self.channel}:VOLTAGE?".
VoltageQuery(dev, c) == Cmd("VOLTAGE?", c, 0)

\* set_cmd of voltage, offset and step: "{self.channel}:VOLTAGE {v}" (with
\* ";PAT:UPDATE" on the AC DAC), "{self.channel}:OFFSET {v}",
\* "{self.channel}:STEP {v}".
SetCommand(dev, name, c, v) ==
    CASE name = "voltage" -> Cmd("VOLTAGE", c, v)
      [] name = "offset" -> Cmd("OFFSET", c, v)
      [] name = "step" -> Cmd("STEP", c, v)

\* The instrument: what a command does to its registers.  *RST brings
\* every output to 0 V.
InstrExec(d, c) ==
    CASE c.cmd = "VOLTAGE" -> [d EXCEPT !.volt[c.ch] = c.arg]
      [] c.cmd = "OFFSET" -> [d EXCEPT !.offset[c.ch] = c.arg]
      [] c.cmd = "STEP" -> [d EXCEPT !.step[c.ch] = c.arg]
      [] c.cmd = "*RST" -> [d EXCEPT !.volt = [x \in DOMAIN d.volt |-> 0]]
      [] OTHER -> d

\* The instrument's reply to a voltage query.
InstrReply(d, c) == d.volt[c.ch]

RECURSIVE InstrExecAll(_, _)
InstrExecAll(d, cmds) ==
    IF cmds = <<>> THEN d
    ELSE InstrExecAll(InstrExec(d, Head(cmds)), Tail(cmds))

RECURSIVE Flatten(_)
Flatten(ss) == IF ss = <<>> THEN <<>> ELSE Head(ss) \o Flatten(Tail(ss))

\* snapshot(update=True): the gettable parameters of the instrument are
\* read (IDN; on the AC DAC frequency and error), then those of every
\* channel (voltage; on the AC DAC phase).
SnapshotQueries(dev) ==
    IF dev = "DC"
    THEN <<Cmd("*IDN?", 0, 0)>>
         \o [c \in 1..DCChannels |-> VoltageQuery(dev, c)]
    ELSE <<Cmd("*IDN?", 0, 0), Cmd("FREQ?", 0, 0), Cmd("SYS:ERR?", 0, 0)>>
         \o Flatten([c \in 1..ACChannels |->
                <<VoltageQuery(dev, c), Cmd("PHASE?", c, 0)>>])

\* A reset that sends the per-channel commands and the queries but no *RST.
ResetCommandsNoRST(dev) ==
    IF dev = "DC"
    THEN Flatten([c \in 1..DCChannels |->
                <<SetCommand(dev, "offset", c, 0), SetCommand(dev, "step", c, 0)>>])
         \o SnapshotQueries(dev)
    ELSE <<Cmd("SYS:DISP:MODE", 0, DisplayRemote)>> \o SnapshotQueries(dev)

\* reset(): "*RST"; on the DC DAC offset(0) and step(0) of each channel in
\* turn, on the AC DAC display_mode("REMOTE"); then snapshot(update=True).
ResetCommands(dev) ==
    IF dev = "DC"
    THEN <<Cmd("*RST", 0, 0)>>
         \o Flatten([c \in 1..DCChannels |->
                <<SetCommand(dev, "offset", c, 0), SetCommand(dev, "step", c, 0)>>])
         \o SnapshotQueries(dev)
    ELSE <<Cmd("*RST", 0, 0), Cmd("SYS:DISP:MODE", 0, DisplayRemote)>>
         \o SnapshotQueries(dev)

\* lastSet[c]: known once a voltage set was accepted on channel c, v its
\* value, fresh until the next reset().
NotSet == [known |-> FALSE, v |-> 0, fresh |-> FALSE]

\* The state after construction: the outputs at 0 V, nothing called yet.
DacStart(dev) ==
    [pc |-> "ready", dev |-> dev, nops |-> 0,
     volt |-> [c \in DacChans(dev) |-> 0],
     offset |-> [c \in DacChans(dev) |-> 0],
     step |-> [c \in DacChans(dev) |-> 0],
     lastSet |-> [c \in DacChans(dev) |-> NotSet],
     op |-> [name |-> "none", param |-> "none", ch |-> 0, arg |-> 0],
     err |-> "none", ret |-> 0, sent |-> <<>>]

Called(d, name, param, c, v) ==
    [d EXCEPT !.nops = @ + 1,
              !.op = [name |-> name, param |-> param, ch |-> c, arg |-> v],
              !.err = "none", !.ret = 0, !.sent = <<>>]

\* chan.voltage(v), chan.offset(v), chan.step(v): the validator, then the
\* one command.
DacSetResult(d, name, c, v) ==
    LET d0 == Called(d, "set", name, c, v)
    IN  IF ~Validate(d.dev, name, v)
        THEN [d0 EXCEPT !.err = "ValueError"]
        ELSE LET cmd == SetCommand(d.dev, name, c, v)
                 d1 == InstrExec(d0, cmd)
             IN  [d1 EXCEPT !.sent = <<cmd>>,
                            !.lastSet[c] = IF name = "voltage"
                                           THEN [known |-> TRUE, v |-> v, fresh |-> TRUE]
                                           ELSE @]

\* chan.voltage(): the query, get_parser=float on the reply.
DacGetResult(d, c) ==
    LET d0 == Called(d, "get", "voltage", c, 0)
        q  == VoltageQuery(d.dev, c)
    IN  [d0 EXCEPT !.sent = <<q>>, !.ret = InstrReply(d, q)]

DacResetResult(d) ==
    LET d0 == Called(d, "reset", "none", 0, 0)
        cmds == ResetCommands(d.dev)
        d1 == InstrExecAll(d0, cmds)
    IN  [d1 EXCEPT !.sent = cmds,
                   !.lastSet = [c \in DOMAIN d.lastSet |->
                                   [d.lastSet[c] EXCEPT !.fresh = FALSE]]]

\* Values handed to the setters: the two bounds of each range and the first
\* value beyond each.
SetInputs(dev, name) ==
    LET r == ParamVals(dev, name)
    IN  {r.lo - 1, r.lo, r.hi, r.hi + 1}

DacParams(dev) == IF dev = "DC" THEN {"voltage", "offset", "step"} ELSE {"voltage"}

DacSet ==
    /\ dac.pc = "ready" /\ dac.nops < MaxDacOps
    /\ \E name \in DacParams(dac.dev), c \in DacChans(dac.dev) :
         \E v \in SetInputs(dac.dev, name) :
            dac' = DacSetResult(dac, name, c, v)
    /\ UNCHANGED <<ramp, yoko, build, keithley>>

DacGet ==
    /\ dac.pc = "ready" /\ dac.nops < MaxDacOps
    /\ \E c \in DacChans(dac.dev) : dac' = DacGetResult(dac, c)
    /\ UNCHANGED <<ramp, yoko, build, keithley>>

DacReset ==
    /\ dac.pc = "ready" /\ dac.nops < MaxDacOps
    /\ dac' = DacResetResult(dac)
    /\ UNCHANGED <<ramp, yoko, build, keithley>>

(***************************************************************************)
(* The Yokogawa GS820 (drivers/Yokogawa_GS820.py)                          *)
(*                                                                         *)
(* yoko.ch[c] holds, for channel c, the instrument's settings (func, out,  *)
(* auto, rng, lev) and the driver's (mode: the latest value of the         *)
(* source_mode parameter, rangeSrc and levelSrc: the domain of the         *)
(* parameter the delegates range and output_level point at, excl: the      *)
(* parameters excluded from the snapshot, latest: the latest value of the  *)
(* parameters voltage and current, olStep and olDelay: step and            *)
(* inter_delay of output_level, 0 for a step of None).  yoko.op, err, msg, ret and     *)
(* sent describe the last call of the driver.  Levels and ranges are in    *)
(* units of 1e-7 V or A.                                                   *)
(***************************************************************************)

YokoIdle == [pc |-> "idle"]

Modes == {"VOLT", "CURR"}

YChans == {1, 2}

\* self.vranges and self.iranges.
VRanges(model) ==
    IF model \in {"765601", "765602"}
    THEN {2000000, 20000000, 70000000, 180000000}
    ELSE {2000000, 20000000, 200000000, 500000000}

IRanges(model) ==
    IF model \in {"765601", "765602"}
    THEN {2, 20, 200, 2000, 20000, 200000, 2000000, 12000000, 32000000}
    ELSE {2, 20, 200, 2000, 20000, 200000, 2000000, 6000000, 12000000}

SetMax(S) == CHOOSE x \in S : \A y \in S : y <= x

SetMin(S) == CHOOSE x \in S : \A y \in S : x <= y

Abs(x) == IF x < 0 THEN -x ELSE x

RECURSIVE Pow10(_)
Pow10(n) == IF n = 0 THEN 1 ELSE 10 * Pow10(n - 1)

RECURSIVE Digits(_)
Digits(x) == IF x < 10 THEN 1 ELSE 1 + Digits(x \div 10)

\* f"{output_level:.5e}": the level rounded to six significant digits.
Format5e(v) ==
    LET a == Abs(v)
        d == Digits(a)
        q == IF d > 6 THEN Pow10(d - 6) ELSE 1
        r == ((a + (q \div 2)) \div q) * q
    IN  IF v < 0 THEN -r ELSE r

LevelParam(m) == IF m = "VOLT" THEN "voltage" ELSE "current"

RangeParam(m) == IF m = "VOLT" THEN "voltage_range" ELSE "current_range"

\* A command or query: its name, the channel it is prefixed with (0: no
\* prefix), the function it names ("": none) and its argument.
YCmd(name, c, m, arg) == [cmd |-> name, ch |-> c, mode |-> m, arg |-> arg]

NoMsg == [kind |-> "none", required |-> "", actual |-> ""]

NoRet == [kind |-> "none", i |-> 0, s |-> ""]

IntRet(i) == [kind |-> "number", i |-> i, s |-> ""]

StrRet(t) == [kind |-> "string", i |-> 0, s |-> t]

\* A mode switch that moves the range parameters in and out of the snapshot
\* and forgets the level parameters.
SnapshotExcludedRangeOnly(m) == {RangeParam(x) : x \in Modes \ {m}}

\* The parameters with snapshot_exclude = True in mode m: the range and the
\* level of the other domain (lines 95, 108, 135, 147 and 456-466).
SnapshotExcluded(m) ==
    {RangeParam(x) : x \in Modes \ {m}} \cup {LevelParam(x) : x \in Modes \ {m}}

\* YokogawaGS820Channel.__init__ on an instrument whose channel sources
\* function f: source_mode() is read, snapshot_exclude and the delegates'
\* sources follow it.
YChanStart(model, f, out, auto) ==
    [func |-> f, out |-> out, auto |-> auto,
     rng |-> [m \in Modes |->
                IF m = "VOLT" THEN SetMin(VRanges(model)) ELSE SetMin(IRanges(model))],
     lev |-> [m \in Modes |-> 0],
     mode |-> f,
     rangeSrc |-> IF f = "VOLT" THEN "VOLT" ELSE "CURR",
     levelSrc |-> IF f = "VOLT" THEN "VOLT" ELSE "CURR",
     excl |-> SnapshotExcluded(f),
     latest |-> [m \in Modes |-> [known |-> FALSE, v |-> 0]],
     olStep |-> 0, olDelay |-> 0]

YCalled(y, name, param, c, m, arg) ==
    [y EXCEPT !.op = [name |-> name, param |-> param, ch |-> c, mode |-> m, arg |-> arg],
              !.err = "none", !.msg = NoMsg, !.ret = NoRet, !.sent = <<>>]

\* The settings of a channel at the instrument's factory defaults: voltage
\* source, output off, fixed range, the smallest ranges, level zero.
InstrDefaults(y, c) ==
    [y.ch[c] EXCEPT
        !.func = "VOLT", !.out = 0, !.auto = 0,
        !.rng = [m \in Modes |-> IF m = "VOLT" THEN SetMin(VRanges(y.model))
                                               ELSE SetMin(IRanges(y.model))],
        !.lev = [m \in Modes |-> 0]]

\* The instrument: what a written command does to the channel it names;
\* *RST brings both channels to the factory defaults, "<channel>.reset()"
\* the channel it names.
YInstr(y, q) ==
    CASE q.cmd = "OUTPUT:STATE" -> [y EXCEPT !.ch[q.ch].out = q.arg]
      [] q.cmd = "*RST" -> [y EXCEPT !.ch = [c \in YChans |-> InstrDefaults(y, c)]]
      [] q.cmd = "reset()" -> [y EXCEPT !.ch[q.ch] = InstrDefaults(y, q.ch)]
      [] q.cmd = "SOUR:FUNC" -> [y EXCEPT !.ch[q.ch].func = q.mode]
      [] q.cmd = "SOUR:RANGE:AUTO" -> [y EXCEPT !.ch[q.ch].auto = q.arg]
      [] q.cmd = "SOUR:RANGE" -> [y EXCEPT !.ch[q.ch].rng[q.mode] = q.arg]
      [] q.cmd = "SOUR:LEV" -> [y EXCEPT !.ch[q.ch].lev[q.mode] = q.arg]
      [] OTHER -> y

\* self.write(cmd) and self.ask(cmd): the command goes out.
YWrite(y, q) == [YInstr(y, q) EXCEPT !.sent = Append(y.sent, q)]

YAsk(y, q) == [y EXCEPT !.sent = Append(@, q)]

\* A gate that lets every access pass.
AssertModeOff(chan, m) == TRUE

\* _assert_mode: self.source_mode.get_latest() != mode raises ValueError.
AssertMode(chan, m) == chan.mode = m

\* The ValueError of _assert_mode: "Cannot get/set {mode} settings while in
\* {self.source_mode.get_latest()} mode".
ModeError(y, c, m) ==
    [y EXCEPT !.err = "ValueError",
              !.msg = [kind |-> "mode", required |-> m, actual |-> y.ch[c].mode]]

\* The ValueError of a validator (Enum.validate).
ValidatorError(y) ==
    [y EXCEPT !.err = "ValueError",
              !.msg = [kind |-> "validator", required |-> "", actual |-> ""]]

\* _get_range(mode): the gate, then "{channel}:SOUR:{mode}:RANGE?".
GetRangeCmd(y, c, m) ==
    IF ~AssertMode(y.ch[c], m)
    THEN ModeError(y, c, m)
    ELSE [YAsk(y, YCmd("SOUR:RANGE?", c, m, 0)) EXCEPT !.ret = IntRet(y.ch[c].rng[m])]

\* self.range(): the delegate reads the parameter it points at.
RangeDelegateGet(y, c) == GetRangeCmd(y, c, y.ch[c].rangeSrc)

\* A level command that names the voltage whatever the mode.
LevelCommandVolt(c, mode, v) == YCmd("SOUR:LEV", c, "VOLT", Format5e(v))

\* f"{self.channel}:SOUR:{mode}:LEV {output_level:.5e}" (line 383).
LevelCommand(c, mode, v) == YCmd("SOUR:LEV", c, mode, Format5e(v))

\* A level set that writes the level at once, with no query before it.
SetOutputLevelDirect(y, c, v) ==
    YWrite(y, YCmd("SOUR:LEV", c, y.ch[c].mode, Format5e(v)))

\* _set_output(output_level), lines 346-384.
SetOutputLevel(y, c, v) ==
    LET y1 == YAsk(y, YCmd("SOUR:RANGE:AUTO?", c, "", 0))
        auto_enabled == (y.ch[c].auto = 1)
        mode == y.ch[c].mode
        y2 == IF ~auto_enabled THEN RangeDelegateGet(y1, c) ELSE y1
        self_range == IF ~auto_enabled
                      THEN y2.ret.i
                      ELSE IF mode = "CURR"
                           THEN SetMax(VRanges(y.model))
                           ELSE SetMax(VRanges(y.model))
        y3 == RangeDelegateGet([y2 EXCEPT !.ret = NoRet], c)
    IN  IF y2.err # "none" THEN y2
        ELSE IF y3.err # "none" THEN y3
        ELSE IF Abs(v) > Abs(self_range)
             \* not auto: self.range.get_latest() is the range just read
             THEN [y3 EXCEPT !.err = "ValueError", !.ret = NoRet,
                             !.msg = [kind |-> "range", required |-> "", actual |-> ""]]
             ELSE [YWrite(y3, LevelCommand(c, mode, v)) EXCEPT !.ret = NoRet]

\* The value a get returned or a set was given becomes the latest value of
\* the parameter.
Latest(v) == [known |-> TRUE, v |-> v]

\* The get of voltage or current: _get_set_output(mode), get_parser=float.
LevelGet(y, c, m) ==
    IF ~AssertMode(y.ch[c], m)
    THEN ModeError(y, c, m)
    ELSE [YAsk(y, YCmd("SOUR:LEV?", c, m, 0)) EXCEPT
              !.ret = IntRet(y.ch[c].lev[m]),
              !.ch[c].latest[m] = Latest(y.ch[c].lev[m])]

\* The set of voltage or current: _get_set_output(mode, v).
LevelSet(y, c, m, v) ==
    IF ~AssertMode(y.ch[c], m)
    THEN ModeError(y, c, m)
    ELSE LET y1 == SetOutputLevel(y, c, v)
         IN  IF y1.err # "none" THEN y1
             ELSE [y1 EXCEPT !.ch[c].latest[m] = Latest(v)]

\* voltage() and current().
YGetLevelResult(y, c, m) ==
    LevelGet(YCalled(y, "get", LevelParam(m), c, m, 0), c, m)

\* voltage(v) and current(v).
YSetLevelResult(y, c, m, v) ==
    LevelSet(YCalled(y, "set", LevelParam(m), c, m, v), c, m, v)

\* The values a stepped set passes through on its way from start to stop:
\* start + i * step for i = 1 .. ceil(|stop - start| / step) - 1, then
\* stop itself.
RampValues(start, stop, step) ==
    LET count == (Abs(stop - start) + step - 1) \div step
        sgn == IF stop > start THEN 1 ELSE -1
    IN  [i \in 1..(count - 1) |-> start + i * sgn * step] \o <<stop>>

\* The sets of a stepped set, one after the other, until one raises.
RECURSIVE RampApply(_, _, _, _)
RampApply(y, c, m, vs) ==
    IF vs = <<>> \/ y.err # "none" THEN y
    ELSE RampApply(LevelSet(y, c, m, Head(vs)), c, m, Tail(vs))

\* self.output_level(ramp_to) (line 316): with a step, the set starts from
\* the latest value of the parameter output_level points at (read from the
\* instrument when there is none) and sets every value of RampValues;
\* without a step it sets ramp_to.
OutputLevelSet(y, c, v) ==
    LET chan == y.ch[c]
        src == chan.levelSrc
        y1 == IF chan.olStep = 0 \/ chan.latest[src].known
              THEN y ELSE LevelGet(y, c, src)
        start == y1.ch[c].latest[src].v
    IN  IF y1.err # "none" THEN y1
        ELSE IF chan.olStep = 0 THEN LevelSet(y1, c, src, v)
        ELSE RampApply([y1 EXCEPT !.ret = NoRet], c, src,
                       RampValues(start, v, chan.olStep))

\* The ValueError of the setters of step and inter_delay.
SettingError(y, what) ==
    [y EXCEPT !.err = "ValueError",
              !.msg = [kind |-> what, required |-> "", actual |-> ""]]

\* Lines 318-319 of _ramp_source: step and inter_delay get their saved
\* values back, when the set returned.
RampRestore(y, c, saved_step, saved_inter_delay) ==
    IF y.err # "none" THEN y
    ELSE [y EXCEPT !.ch[c].olStep = saved_step,
                   !.ch[c].olDelay = saved_inter_delay]

\* ramp_voltage and ramp_current: the gate, then _ramp_source (lines
\* 311-319).  A negative step or delay is rejected by the setter of step
\* or inter_delay; a step of zero means no stepping.
YRampResult(y, c, m, ramp_to, step, delay) ==
    LET y0 == YCalled(y, "ramp", LevelParam(m), c, m, ramp_to)
        saved_step == y.ch[c].olStep
        saved_inter_delay == y.ch[c].olDelay
        y1 == [y0 EXCEPT !.ch[c].olStep = step]
        y2 == [y1 EXCEPT !.ch[c].olDelay = delay]
    IN  IF ~AssertMode(y.ch[c], m) THEN ModeError(y0, c, m)
        ELSE IF step < 0 THEN SettingError(y0, "step")
        ELSE IF delay < 0 THEN SettingError(y1, "inter_delay")
        ELSE RampRestore(OutputLevelSet(y2, c, ramp_to), c,
                         saved_step, saved_inter_delay)

\* voltage_range() and current_range(): _get_range(mode).
YGetRangeResult(y, c, m) ==
    GetRangeCmd(YCalled(y, "get", RangeParam(m), c, m, 0), c, m)

\* voltage_range(r) and current_range(r): vals=Enum(*self.vrange) or
\* Enum(*self.irange), then _set_range(mode, r).
YSetRangeResult(y, c, m, r) ==
    LET y0 == YCalled(y, "set", RangeParam(m), c, m, r)
        table == IF m = "VOLT" THEN VRanges(y.model) ELSE IRanges(y.model)
    IN  IF r \notin table THEN ValidatorError(y0)
        ELSE IF ~AssertMode(y.ch[c], m) THEN ModeError(y0, c, m)
        ELSE YWrite(y0, YCmd("SOUR:RANGE", c, m, r))

\* create_on_off_val_mapping(on_val=1, off_val=0), inverted: what a get
\* of output returns for the instrument's reply.
OnOffValue(raw) == IF raw = 1 THEN "True" ELSE "False"

\* output(): state() asks "OUTPUT:STATE?" (no channel prefix); reply is the
\* instrument's answer.
YGetOutputResult(y, c, reply) ==
    LET y0 == YCalled(y, "get", "output", c, "", 0)
    IN  [YAsk(y0, YCmd("OUTPUT:STATE?", 0, "", 0)) EXCEPT !.ret = StrRet(OnOffValue(reply))]

\* output(x): on() or off().
YSetOutputResult(y, c, x) ==
    YWrite(YCalled(y, "set", "output", c, "", x), YCmd("OUTPUT:STATE", c, "", x))

\* auto_range(x): _set_auto_range.
YSetAutoResult(y, c, x) ==
    YWrite(YCalled(y, "set", "auto_range", c, "", x), YCmd("SOUR:RANGE:AUTO", c, "", x))

\* source_mode(): "{channel}:SOUR:FUNC?"; the reply becomes the latest value.
YGetModeResult(y, c) ==
    LET y0 == YAsk(YCalled(y, "get", "source_mode", c, "", 0), YCmd("SOUR:FUNC?", c, "", 0))
    IN  [y0 EXCEPT !.ret = StrRet(y.ch[c].func), !.ch[c].mode = y.ch[c].func]

\* The SOUR:FUNC command without its channel prefix: the instrument takes
\* it for its first channel.
ModeCommandUnprefixed(c, m) == YCmd("SOUR:FUNC", 1, m, 0)

\* f"{self.channel}:SOUR:FUNC {mode}" (line 468).
ModeCommand(c, m) == YCmd("SOUR:FUNC", c, m, 0)

\* source_mode(mode): _set_source_mode, lines 450-472.
YSetModeResult(y, c, m, reply) ==
    LET y0 == YCalled(y, "set", "source_mode", c, m, 0)
        y1 == YAsk(y0, YCmd("OUTPUT:STATE?", 0, "", 0))
        y2 == [y1 EXCEPT
                 !.ch[c].rangeSrc = m,
                 !.ch[c].levelSrc = m,
                 !.ch[c].excl = SnapshotExcluded(m)]
        y3 == YWrite(y2, ModeCommand(c, m))
    IN  IF OnOffValue(reply) = "on"
        THEN [y1 EXCEPT !.err = "YokogawaGS200Exception"]
        ELSE [y3 EXCEPT !.ch[c].mode = m]

\* auto_range(): "{channel}:SOUR:RANGE:AUTO?".
YGetAutoResult(y, c) ==
    LET y0 == YAsk(YCalled(y, "get", "auto_range", c, "", 0),
                   YCmd("SOUR:RANGE:AUTO?", c, "", 0))
    IN  [y0 EXCEPT !.ret = StrRet(OnOffValue(y.ch[c].auto))]

\* The query of a gated parameter during a snapshot: sent when the
\* parameter is in the snapshot and the gate lets it pass; the ValueError of
\* the gate is caught by the snapshot.
GatedQuery(chan, c, name, m, included) ==
    IF included /\ AssertMode(chan, m) THEN <<YCmd(name, c, m, 0)>> ELSE <<>>

\* channel.snapshot(update=True): every parameter of the channel that is
\* not excluded is read, in the order of its definition; the read of
\* source_mode renews its latest value, the delegates read their sources.
YSnapshotState(y, c) ==
    LET ch0 == [y.ch[c] EXCEPT !.mode = y.ch[c].func]
        read == {m \in Modes :
                    /\ AssertMode(ch0, m)
                    /\ LevelParam(m) \notin ch0.excl \/ ch0.levelSrc = m}
        chan == [ch0 EXCEPT
                    !.latest = [m \in Modes |->
                                  IF m \in read THEN Latest(ch0.lev[m]) ELSE @[m]]]
        qs == <<YCmd("OUTPUT:STATE?", 0, "", 0), YCmd("SOUR:FUNC?", c, "", 0)>>
              \o GatedQuery(chan, c, "SOUR:RANGE?", "VOLT", "voltage_range" \notin chan.excl)
              \o GatedQuery(chan, c, "SOUR:RANGE?", "CURR", "current_range" \notin chan.excl)
              \o GatedQuery(chan, c, "SOUR:RANGE?", chan.rangeSrc, TRUE)
              \o <<YCmd("SOUR:RANGE:AUTO?", c, "", 0)>>
              \o GatedQuery(chan, c, "SOUR:LEV?", "VOLT", "voltage" \notin chan.excl)
              \o GatedQuery(chan, c, "SOUR:LEV?", "CURR", "current" \notin chan.excl)
              \o GatedQuery(chan, c, "SOUR:LEV?", chan.levelSrc, TRUE)
              \o <<YCmd("SOUR:PROT:VOLT?", 0, "", 0), YCmd("SOUR:PROT:CURR?", 0, "", 0),
                    YCmd("SENS:REM?", 0, "", 0), YCmd("SYSTem:ERRor?", 0, "", 0)>>
    IN  [y EXCEPT !.ch[c] = chan, !.sent = @ \o qs]

\* channel.snapshot(update=True) called by itself.
YSnapshotResult(y, c) ==
    YSnapshotState(YCalled(y, "snapshot", "channel", c, "", 0), c)

\* What the instrument makes of "<channel>.reset()": it brings the channel
\* to its defaults, or it does not know the command.
ResetEffects == {"defaults", "ignored"}

\* channel.reset(): the write, then snapshot(update=True).
YChanResetResult(y, c, effect) ==
    LET y0 == YCalled(y, "reset", "channel", c, "", 0)
        q  == YCmd("reset()", c, "", 0)
    IN  YSnapshotState(IF effect = "defaults" THEN YWrite(y0, q) ELSE YAsk(y0, q), c)

\* YokogawaGS820.reset(): "*RST" and nothing else.
YResetResult(y) ==
    YWrite(YCalled(y, "reset", "instrument", 0, "", 0), YCmd("*RST", 0, "", 0))

\* The state after YokogawaGS820.__init__: a supported model, each channel
\* sourcing voltage or current (f), its output off and auto range off.
YokoStart(model, f) ==
    [pc |-> "ready", model |-> model,
     ch |-> [c \in YChans |-> YChanStart(model, f[c], 0, 0)],
     op |-> [name |-> "none", param |-> "none", ch |-> 0, mode |-> "", arg |-> 0],
     err |-> "none", msg |-> NoMsg, ret |-> NoRet, sent |-> <<>>]

\* Levels handed to voltage and current: zero and a level beyond the
\* largest range of every model.
LevelInputs == {0, 600000000}

\* Ranges handed to voltage_range and current_range: the smallest range of
\* the model and a value that is in no table.
RangeInputs(model, m) ==
    {SetMin(IF m = "VOLT" THEN VRanges(model) ELSE IRanges(model)), 50000000}

\* The reply to the unprefixed "OUTPUT:STATE?": the output state of the
\* channel the instrument takes the query for, the asking channel or the
\* first one.
StateReplies(y, c) == {y.ch[c].out, y.ch[1].out}

\* The channels on which the level, the range and the auto range are read
\* and set; source_mode, output, the snapshot and the resets are exercised
\* on both channels.
LevelChans == {1}

YGetLevel ==
    /\ yoko.pc = "ready"
    /\ \E c \in LevelChans, m \in Modes : yoko' = YGetLevelResult(yoko, c, m)
    /\ UNCHANGED <<ramp, dac, build, keithley>>

YSetLevel ==
    /\ yoko.pc = "ready"
    /\ \E c \in LevelChans, m \in Modes, v \in LevelInputs :
         yoko' = YSetLevelResult(yoko, c, m, v)
    /\ UNCHANGED <<ramp, dac, build, keithley>>

YGetRange ==
    /\ yoko.pc = "ready"
    /\ \E c \in LevelChans, m \in Modes : yoko' = YGetRangeResult(yoko, c, m)
    /\ UNCHANGED <<ramp, dac, build, keithley>>

YSetRange ==
    /\ yoko.pc = "ready"
    /\ \E c \in LevelChans, m \in Modes :
         \E r \in RangeInputs(yoko.model, m) :
            yoko' = YSetRangeResult(yoko, c, m, r)
    /\ UNCHANGED <<ramp, dac, build, keithley>>

YGetMode ==
    /\ yoko.pc = "ready"
    /\ \E c \in YChans : yoko' = YGetModeResult(yoko, c)
    /\ UNCHANGED <<ramp, dac, build, keithley>>

YSetMode ==
    /\ yoko.pc = "ready"
    /\ \E c \in YChans, m \in Modes :
         \E reply \in StateReplies(yoko, c) :
            yoko' = YSetModeResult(yoko, c, m, reply)
    /\ UNCHANGED <<ramp, dac, build, keithley>>

YGetOutput ==
    /\ yoko.pc = "ready"
    /\ \E c \in YChans :
         \E reply \in StateReplies(yoko, c) :
            yoko' = YGetOutputResult(yoko, c, reply)
    /\ UNCHANGED <<ramp, dac, build, keithley>>

YSetOutput ==
    /\ yoko.pc = "ready"
    /\ \E c \in YChans, x \in {0, 1} : yoko' = YSetOutputResult(yoko, c, x)
    /\ UNCHANGED <<ramp, dac, build, keithley>>

YGetAuto ==
    /\ yoko.pc = "ready"
    /\ \E c \in LevelChans : yoko' = YGetAutoResult(yoko, c)
    /\ UNCHANGED <<ramp, dac, build, keithley>>

YSetAuto ==
    /\ yoko.pc = "ready"
    /\ \E c \in LevelChans, x \in {0, 1} : yoko' = YSetAutoResult(yoko, c, x)
    /\ UNCHANGED <<ramp, dac, build, keithley>>

YSnapshot ==
    /\ yoko.pc = "ready"
    /\ \E c \in YChans : yoko' = YSnapshotResult(yoko, c)
    /\ UNCHANGED <<ramp, dac, build, keithley>>

YChanReset ==
    /\ yoko.pc = "ready"
    /\ \E c \in YChans, effect \in ResetEffects :
         yoko' = YChanResetResult(yoko, c, effect)
    /\ UNCHANGED <<ramp, dac, build, keithley>>

YReset ==
    /\ yoko.pc = "ready"
    /\ yoko' = YResetResult(yoko)
    /\ UNCHANGED <<ramp, dac, build, keithley>>

InitGS820 ==
    /\ yoko \in { YokoStart("765601", f) : f \in [YChans -> Modes] }
    /\ ramp = RampIdle /\ dac = DacIdle /\ build = BuildIdle
    /\ keithley = KeithleyIdle

NextGS820 ==
    \/ YGetLevel \/ YSetLevel \/ YGetRange \/ YSetRange
    \/ YGetMode \/ YSetMode \/ YGetOutput \/ YSetOutput
    \/ YGetAuto \/ YSetAuto
    \/ YSnapshot \/ YChanReset \/ YReset

SpecGS820 == InitGS820 /\ [][NextGS820]_vars

\* The ranges of the domain m of the model.
RangeTable(model, m) == IF m = "VOLT" THEN VRanges(model) ELSE IRanges(model)

\* A level of more than six significant digits, within the largest range
\* of either model: 12.3456789 V, 0.1234567 A.
LongLevel(m) == IF m = "VOLT" THEN 123456789 ELSE 1234567

\* Levels handed to voltage and current: zero, the smallest range
\* (negative), the first level beyond it, the largest range, twice the
\* largest range, a long level and a level beyond every range.
FineLevelInputs(model, m) ==
    {0, -SetMin(RangeTable(model, m)), SetMin(RangeTable(model, m)) + 1,
     SetMax(RangeTable(model, m)), 2 * SetMax(RangeTable(model, m)),
     LongLevel(m), 600000000}

\* <<ramp_to, step, delay>> handed to the ramps.  Targets: zero, the
\* largest range and a long level, with a step of 20 V or 0.4 A, no step,
\* a negative step or a negative delay; and a level beyond every range,
\* with a step of 20 V or 20 A or no step.
RampInputs(model, m) ==
    LET st == IF m = "VOLT" THEN 200000000 ELSE 4000000
    IN  ({0, SetMax(RangeTable(model, m)), LongLevel(m)}
            \X {st, 0, -st} \X {1})
        \cup {<<SetMax(RangeTable(model, m)), st, -1>>}
        \cup {<<600000000, 200000000, 1>>, <<600000000, 0, 1>>}

\* Ranges handed to voltage_range and current_range: the smallest and the
\* largest range of the model.
FineRangeInputs(model, m) ==
    {SetMin(RangeTable(model, m)), SetMax(RangeTable(model, m))}

YRamp ==
    /\ yoko.pc = "ready"
    /\ \E c \in LevelChans, m \in Modes :
         \E in \in RampInputs(yoko.model, m) :
            yoko' = YRampResult(yoko, c, m, in[1], in[2], in[3])
    /\ UNCHANGED <<ramp, dac, build, keithley>>

YSetLevelFine ==
    /\ yoko.pc = "ready"
    /\ \E c \in LevelChans, m \in Modes :
         \E v \in FineLevelInputs(yoko.model, m) :
            yoko' = YSetLevelResult(yoko, c, m, v)
    /\ UNCHANGED <<ramp, dac, build, keithley>>

YSetRangeFine ==
    /\ yoko.pc = "ready"
    /\ \E c \in LevelChans, m \in Modes :
         \E r \in FineRangeInputs(yoko.model, m) :
            yoko' = YSetRangeResult(yoko, c, m, r)
    /\ UNCHANGED <<ramp, dac, build, keithley>>

\* The levels of one channel, in the mode the instrument was found in.
InitGS820Level ==
    /\ yoko \in { YokoStart("765611", [c \in YChans |->
                                IF c \in LevelChans THEN m ELSE "VOLT"]) :
                    m \in Modes }
    /\ ramp = RampIdle /\ dac = DacIdle /\ build = BuildIdle
    /\ keithley = KeithleyIdle

NextGS820Level ==
    \/ YRamp \/ YSetLevelFine \/ YGetLevel \/ YSetRangeFine \/ YSetAuto

SpecGS820Level == InitGS820Level /\ [][NextGS820Level]_vars

InitDac ==
    /\ dac \in {DacStart("DC"), DacStart("AC")}
    /\ ramp = RampIdle /\ yoko = YokoIdle /\ build = BuildIdle
    /\ keithley = KeithleyIdle

NextDac == DacSet \/ DacGet \/ DacReset

SpecDac == InitDac /\ [][NextDac]_vars

InitParamp ==
    /\ ramp \in RampInit /\ dac = DacIdle /\ yoko = YokoIdle
    /\ build = BuildIdle /\ keithley = KeithleyIdle

NextParamp == ParampBegin \/ ParampApply \/ ParampSetRaises

SpecParamp == InitParamp /\ [][NextParamp]_vars

(***************************************************************************)
(* Construction (the __init__ of the three instruments and of their        *)
(* channel classes)                                                        *)
(*                                                                         *)
(* build.idn is the model the instrument's identification reports,         *)
(* build.channels the channel objects the instrument's constructor has    *)
(* attached, build.objs the channel objects the caller has constructed on  *)
(* the instrument afterwards, build.last and build.err the name handed to  *)
(* the last constructor call and the exception it raised.                  *)
(***************************************************************************)

\* Number of channel objects the caller constructs after the instrument.
MaxBuilds == 2

\* f"channel{i}", f"ch{i}".
ChanName(prefix, i) == [prefix |-> prefix, idx |-> i]

NoName == ChanName("", 0)

\* supportedmodels of YokogawaGS820.__init__.
SupportedModels == {"765601", "765602", "765611", "765612"}

\* The names the constructor of the channel class accepts: the list of
\* YokogawaGS820Channel (line 50), valid_chnls of DCDAC5764Channel (line 29)
\* and of ACDAC9106Channel (line 28).
ValidChnls(dev) ==
    CASE dev = "GS820" -> {ChanName("channel", 1), ChanName("channel", 2)}
      [] dev = "DC" -> {ChanName("channel", i) : i \in 1..8}
      [] dev = "AC" -> {ChanName("ch", i) : i \in 1..8}

\* The names the instrument's constructor gives its channels: ['1', '2'],
\* range(1, 9), range(1, 5).
OwnChannels(dev) ==
    CASE dev = "GS820" -> {ChanName("channel", 1), ChanName("channel", 2)}
      [] dev = "DC" -> {ChanName("channel", i) : i \in 1..8}
      [] dev = "AC" -> {ChanName("ch", i) : i \in 1..4}

\* The state before the instrument's constructor runs, on an instrument
\* that identifies as idn.
BuildStart(dev, idn) ==
    [pc |-> "new", dev |-> dev, idn |-> idn, channels |-> {}, objs |-> {},
     nbuilt |-> 0, last |-> NoName, err |-> "none"]

\* The constructor of the instrument: the GS820 checks the model before it
\* creates any channel; then one channel object per name of the instrument.
InstrumentInit(b) ==
    IF b.dev = "GS820" /\ b.idn \notin SupportedModels
    THEN [b EXCEPT !.pc = "failed", !.err = "ValueError"]
    ELSE IF OwnChannels(b.dev) \subseteq ValidChnls(b.dev)
         THEN [b EXCEPT !.pc = "built", !.channels = OwnChannels(b.dev)]
         ELSE [b EXCEPT !.pc = "failed", !.err = "ValueError"]

\* The constructor of a channel class called with `channel` = name: the
\* check of the name comes first and raises ValueError, else the object is
\* constructed.
ChannelInit(b, name) ==
    IF name \notin ValidChnls(b.dev)
    THEN [b EXCEPT !.nbuilt = @ + 1, !.last = name, !.err = "ValueError"]
    ELSE [b EXCEPT !.nbuilt = @ + 1, !.last = name, !.err = "none",
                   !.objs = @ \cup {name}]

\* Models reported by the identification: the supported ones, a GS200 and
\* a GS820 model number that is not supported.
IdnModels == SupportedModels \cup {"765670", "GS210"}

\* Names handed to the channel constructors.
NameInputs == {ChanName(p, i) : p \in {"channel", "ch"}, i \in 0..9}

BuildInstrument ==
    /\ build.pc = "new"
    /\ build' = InstrumentInit(build)
    /\ UNCHANGED <<ramp, dac, yoko, keithley>>

BuildChannel ==
    /\ build.pc = "built" /\ build.nbuilt < MaxBuilds
    /\ \E name \in NameInputs : build' = ChannelInit(build, name)
    /\ UNCHANGED <<ramp, dac, yoko, keithley>>

InitBuild ==
    /\ build \in {BuildStart("GS820", idn) : idn \in IdnModels}
                 \cup {BuildStart("DC", "DC5764"), BuildStart("AC", "AC9106")}
    /\ ramp = RampIdle /\ dac = DacIdle /\ yoko = YokoIdle
    /\ keithley = KeithleyIdle

NextBuild == BuildInstrument \/ BuildChannel

SpecBuild == InitBuild /\ [][NextBuild]_vars

(***************************************************************************)
(* The Keithley 6500 (drivers/Keithley_6500.py)                            *)
(*                                                                         *)
(* keithley.func is the instrument's measurement function, keithley.auto   *)
(* and keithley.aver its RANG:AUTO and AVER:STAT settings of each          *)
(* function, keithley.imp its input impedance setting; keithley.op, err,   *)
(* msg, ret and sent describe the last call of the driver.  What the       *)
(* instrument holds and replies is text, as on the wire.                   *)
(***************************************************************************)

\* self._mode_map (lines 74-83).
KModeMap ==
    ("ac current" :> "CURR:AC") @@ ("dc current" :> "CURR:DC") @@
    ("ac voltage" :> "VOLT:AC") @@ ("dc voltage" :> "VOLT:DC") @@
    ("2w resistance" :> "RES") @@ ("4w resistance" :> "FRES") @@
    ("temperature" :> "TEMP") @@ ("frequency" :> "FREQ")

\* The inverse of val_mapping, applied to what a get received.
KModeName(reply) == CHOOSE m \in DOMAIN KModeMap : KModeMap[m] = reply

\* The val_mapping of input_impedance (lines 226-229).
ImpedanceMap == ("10" :> "MOHM10") @@ ("auto" :> "AUTO")

\* _parse_output_string (lines 21-28) on the values of _mode_map: no
\* surrounding space or quotes to remove, the text in lower case, and no
\* conversion applies.
ParseOutputString(t) ==
    CASE t = "CURR:AC" -> "curr:ac" [] t = "CURR:DC" -> "curr:dc"
      [] t = "VOLT:AC" -> "volt:ac" [] t = "VOLT:DC" -> "volt:dc"
      [] t = "RES" -> "res" [] t = "FRES" -> "fres"
      [] t = "TEMP" -> "temp" [] t = "FREQ" -> "freq"

\* _parse_output_bool (line 40): bool(numeric_value).  The value is the
\* text self.ask returned, and the bool of a text is True unless the text
\* is empty.
ParseOutputBool(numeric_value) == numeric_value # ""

\* The modes the instrument is found in and is switched to.
KModes == {"dc voltage", "ac voltage", "dc current"}

\* The boolean parameters of lines 109-114 and 138-143, and the command
\* each is built on.
BoolParams == {"auto_range_enabled", "averaging_enabled"}

BoolCommand(p) == IF p = "auto_range_enabled" THEN "RANG:AUTO" ELSE "AVER:STAT"

\* A command or query: f"{mode}:{parameter} {value}", f"{mode}:{parameter}?",
\* "SENS:FUNC?", "SENS:FUNC '{}'", ":VOLT:DC:INPutimpedance ...".
KCmd(name, mode, arg) == [cmd |-> name, mode |-> mode, arg |-> arg]

BoolRet(b) == [kind |-> "bool", i |-> IF b THEN 1 ELSE 0, s |-> ""]

\* The state after construction, with the instrument as it was found.
KeithleyStart(func, auto, aver, imp) ==
    [pc |-> "ready", func |-> func, auto |-> auto, aver |-> aver, imp |-> imp,
     op |-> [name |-> "init", param |-> "", arg |-> ""],
     err |-> "none", msg |-> [text |-> "", mode |-> ""], ret |-> NoRet,
     sent |-> <<>>]

\* The instrument's reaction to a command.
KInstr(k, q) ==
    CASE q.cmd = "SENS:FUNC" -> [k EXCEPT !.func = q.arg]
      [] q.cmd = "RANG:AUTO" -> [k EXCEPT !.auto[q.mode] = q.arg]
      [] q.cmd = "AVER:STAT" -> [k EXCEPT !.aver[q.mode] = q.arg]
      [] q.cmd = ":VOLT:DC:INPutimpedance" -> [k EXCEPT !.imp = q.arg]
      [] OTHER -> k

\* The instrument's reply to a query.
KReply(k, q) ==
    CASE q.cmd = "SENS:FUNC?" -> k.func
      [] q.cmd = "RANG:AUTO?" -> k.auto[q.mode]
      [] q.cmd = "AVER:STAT?" -> k.aver[q.mode]
      [] q.cmd = ":VOLT:DC:INPutimpedance?" -> k.imp
      [] OTHER -> ""

\* A call of a parameter begins: nothing sent, nothing raised.
KCalled(k, name, param, arg) ==
    [k EXCEPT !.op = [name |-> name, param |-> param, arg |-> arg],
              !.err = "none", !.msg = [text |-> "", mode |-> ""],
              !.ret = NoRet, !.sent = <<>>]

\* self.write: the command is sent and the instrument reacts.
KWrite(k, q) == [KInstr(k, q) EXCEPT !.sent = Append(k.sent, q)]

\* self.mode(): get_cmd="SENS:FUNC?" and the inverse of val_mapping.
ModeGet(k) ==
    LET q == KCmd("SENS:FUNC?", "", "")
    IN  [k EXCEPT !.sent = Append(@, q),
                  !.ret = StrRet(KModeName(KReply(k, q)))]

\* self.mode(m): the validator of val_mapping, then set_cmd="SENS:FUNC '{}'"
\* with the mapped value.
ModeSet(k, m) ==
    IF m \notin DOMAIN KModeMap
    THEN [k EXCEPT !.err = "ValueError",
                   !.msg = [text |-> "validator", mode |-> ""]]
    ELSE KWrite(k, KCmd("SENS:FUNC", "", KModeMap[m]))

\* _get_mode_param(parameter, _parse_output_bool), lines 294-296.
GetModeParamBool(k, parameter) ==
    LET k1 == ModeGet(k)
        mode == ParseOutputString(KModeMap[k1.ret.s])
        q == KCmd(parameter \o "?", mode, "")
    IN  [k1 EXCEPT !.sent = Append(@, q),
                   !.ret = BoolRet(ParseOutputBool(KReply(k1, q)))]

\* _set_mode_param(parameter, value) with a bool, lines 305-310: the bool
\* becomes an int, written as 0 or 1.
SetModeParamBool(k, parameter, value) ==
    LET int == IF value THEN "1" ELSE "0"
        k1 == ModeGet(k)
        mode == ParseOutputString(KModeMap[k1.ret.s])
    IN  [KWrite(k1, KCmd(parameter, mode, int)) EXCEPT !.ret = NoRet]

\* A gate that names no mode: the message of _assert_mode without msg.
KAssertModeUnnamed(k, mode, msg) ==
    LET k1 == ModeGet(k)
    IN  IF k1.ret.s # mode
        THEN [k1 EXCEPT !.err = "ValueError", !.ret = NoRet,
                        !.msg = [text |-> "Incorrect Mode Setting", mode |-> ""]]
        ELSE [k1 EXCEPT !.ret = NoRet]

\* _assert_mode(mode, msg), lines 253-257: the mode is read from the
\* instrument, and the message ends with the mode found.
KAssertMode(k, mode, msg) ==
    LET k1 == ModeGet(k)
        curr_mode == k1.ret.s
    IN  IF curr_mode # mode
        THEN [k1 EXCEPT !.err = "ValueError", !.ret = NoRet,
                        !.msg = [text |-> msg, mode |-> curr_mode]]
        ELSE [k1 EXCEPT !.ret = NoRet]

\* _get_input_impedance (lines 269-273), then get_parser=str and the
\* inverse of val_mapping.
GetInputImpedance(k) ==
    LET k1 == KAssertMode(k, "dc voltage", "No input impedance settings for ")
        q == KCmd(":VOLT:DC:INPutimpedance?", "", "")
        value == CHOOSE v \in DOMAIN ImpedanceMap :
                     ImpedanceMap[v] = KReply(k1, q)
    IN  IF k1.err # "none" THEN k1
        ELSE [k1 EXCEPT !.sent = Append(@, q), !.ret = StrRet(value)]

\* input_impedance(v): the validator of val_mapping, the mapped value, then
\* _set_input_impedance (lines 275-278).
SetInputImpedance(k, v) ==
    LET k1 == KAssertMode(k, "dc voltage", "No input impedance settings for ")
    IN  IF v \notin DOMAIN ImpedanceMap
        THEN [k EXCEPT !.err = "ValueError",
                       !.msg = [text |-> "validator", mode |-> ""]]
        ELSE IF k1.err # "none" THEN k1
        ELSE KWrite(k1, KCmd(":VOLT:DC:INPutimpedance", "", ImpedanceMap[v]))

KGetMode ==
    /\ keithley.pc = "ready"
    /\ keithley' = ModeGet(KCalled(keithley, "get", "mode", ""))
    /\ UNCHANGED <<ramp, dac, yoko, build>>

\* mode(m) with a mode of KModes or a name _mode_map does not hold.
KSetMode ==
    /\ keithley.pc = "ready"
    /\ \E m \in KModes \cup {"resistance"} :
          keithley' = ModeSet(KCalled(keithley, "set", "mode", m), m)
    /\ UNCHANGED <<ramp, dac, yoko, build>>

KGetBool ==
    /\ keithley.pc = "ready"
    /\ \E p \in BoolParams :
          keithley' = GetModeParamBool(KCalled(keithley, "get", p, ""),
                                       BoolCommand(p))
    /\ UNCHANGED <<ramp, dac, yoko, build>>

KSetBool ==
    /\ keithley.pc = "ready"
    /\ \E p \in BoolParams, value \in BOOLEAN :
          keithley' = SetModeParamBool(
                          KCalled(keithley, "set", p, IF value THEN "True" ELSE "False"),
                          BoolCommand(p), value)
    /\ UNCHANGED <<ramp, dac, yoko, build>>

KGetImpedance ==
    /\ keithley.pc = "ready"
    /\ keithley' = GetInputImpedance(KCalled(keithley, "get", "input_impedance", ""))
    /\ UNCHANGED <<ramp, dac, yoko, build>>

\* input_impedance(v) with the two values of val_mapping and one more.
KSetImpedance ==
    /\ keithley.pc = "ready"
    /\ \E v \in {"10", "auto", "5"} :
          keithley' = SetInputImpedance(
                          KCalled(keithley, "set", "input_impedance", v), v)
    /\ UNCHANGED <<ramp, dac, yoko, build>>

\* The instrument is found in one of KModes with any settings.
InitKeithley ==
    /\ keithley \in { KeithleyStart(KModeMap[m], auto, aver, imp) :
                        m \in KModes,
                        auto \in [{"volt:dc", "volt:ac", "curr:dc"} -> {"0", "1"}],
                        aver \in [{"volt:dc", "volt:ac", "curr:dc"} -> {"0", "1"}],
                        imp \in {"MOHM10", "AUTO"} }
    /\ ramp = RampIdle /\ dac = DacIdle /\ yoko = YokoIdle /\ build = BuildIdle

NextKeithley ==
    \/ KGetMode \/ KSetMode \/ KGetBool \/ KSetBool
    \/ KGetImpedance \/ KSetImpedance

SpecKeithley == InitKeithley /\ [][NextKeithley]_vars

(***************************************************************************)
(* Properties of paramp                                                    *)
(***************************************************************************)

\* The target of parameter i as the caller gave it.
RampTarget(i) == IF ramp.finalGiven THEN ramp.final[i] ELSE 0

RampStarted == ramp.pc \in {"loop", "done", "raised"} /\ ramp.err # "ValueError"

\* x - y = (target - start) / (steps - 1), for fractions x and y.
StepIs(x, y, i) ==
    (x.num * y.den - y.num * x.den) * (ramp.steps - 1)
        = (RampTarget(i) - ramp.init[i]) * x.den * y.den

\* C3: the values applied to each parameter are, in order, samples of the
\* `steps` evenly spaced values: never more than `steps` of them, exactly
\* `steps` once paramp has returned, the first is the value the parameter
\* held when paramp started, and consecutive ones differ by
\* (target - start) / (steps - 1); in the callable and in the tuple form.
C3_EvenlySpaced ==
    RampStarted =>
        \A i \in 1..ramp.n :
            LET a == ramp.applied[i]
            IN  /\ Len(a) <= ramp.steps
                /\ ramp.pc = "done" => Len(a) = ramp.steps
                /\ Len(a) >= 1 => ValEq(a[1], Whole(ramp.init[i]))
                /\ \A j \in 1..(Len(a) - 1) : StepIs(a[j + 1], a[j], i)

C3_Witness ==
    /\ ramp.pc = "done" /\ ramp.form = "tuple" /\ ramp.n = 2 /\ ramp.steps = 3
    /\ \A i \in 1..2 : Len(ramp.applied[i]) = 3 /\ RampTarget(i) # ramp.init[i]

C5_Lockstep ==
    (RampStarted /\ ramp.form = "tuple" /\ ramp.track) =>
        \A i, j \in 1..ramp.n :
            i < j => Len(ramp.applied[i]) - Len(ramp.applied[j]) \in {0, 1}

C5_Witness ==
    /\ ramp.form = "tuple" /\ ramp.track /\ ramp.n = 2 /\ ramp.steps = 3
    /\ Len(ramp.applied[1]) = 2 /\ Len(ramp.applied[2]) = 1

\* C6: in the tuple form with track=False the parameters are ramped one
\* after the other: once a later parameter has had a sample applied, every
\* earlier parameter has had exactly its `steps` samples.
C6_Sequential ==
    (RampStarted /\ ramp.form = "tuple" /\ ~ramp.track) =>
        \A i, j \in 1..ramp.n :
            (i < j /\ Len(ramp.applied[j]) >= 1)
                => Len(ramp.applied[i]) = ramp.steps

C6_Witness ==
    /\ ramp.form = "tuple" /\ ~ramp.track /\ ramp.n = 2 /\ ramp.steps = 3
    /\ Len(ramp.applied[1]) = 3 /\ Len(ramp.applied[2]) = 2

\* C7: when applying a value raises, paramp ends with that exception and
\* the step that raises changes no parameter; from then on no value is
\* applied to any parameter and the values applied before stay as they are.
C7_AbortOnError ==
    [][ /\ (ramp.err = "none" /\ ramp'.err = "SetError") =>
              /\ ramp'.pc = "raised"
              /\ ramp'.applied = ramp.applied
              /\ ramp'.store = ramp.store
        /\ ramp.err = "SetError" =>
              /\ ramp'.applied = ramp.applied
              /\ ramp'.store = ramp.store
              /\ ramp'.pc = "raised" ]_vars

C7_Witness ==
    /\ ramp.err = "SetError" /\ ramp.pc = "raised" /\ ramp.n = 2
    /\ Len(ramp.applied[1]) >= 1
    /\ ramp.store[1] = ramp.applied[1][Len(ramp.applied[1])]
    /\ Len(ramp.applied[2]) < ramp.steps

\* C15: between two successive values applied to a parameter at least one
\* sleep ends, in the callable, the lockstep and the sequential form; when
\* paramp returns it has slept `steps` times in the callable and the
\* lockstep form and steps * len(params) times in the sequential form.
C15_Pauses ==
    /\ RampStarted =>
          \A i \in 1..ramp.n :
              /\ Len(ramp.at[i]) = Len(ramp.applied[i])
              /\ \A j \in 1..(Len(ramp.at[i]) - 1) :
                    ramp.at[i][j + 1] >= ramp.at[i][j] + 1
    /\ ramp.pc = "done" =>
          ramp.sleeps = IF ramp.form = "tuple" /\ ~ramp.track
                        THEN ramp.steps * ramp.n
                        ELSE ramp.steps

C15_Witness ==
    /\ ramp.pc = "done" /\ ramp.form = "tuple" /\ ramp.track
    /\ ramp.n = 2 /\ ramp.steps = 3 /\ ramp.sleeps = 3
    /\ ramp.at[1] = <<0, 1, 2>> /\ ramp.at[2] = <<0, 1, 2>>

(***************************************************************************)
(* Properties of the DACs                                                  *)
(***************************************************************************)

DacCall == dac'.nops = dac.nops + 1

\* The static range of each parameter, as documented.
DocumentedRange(dev, name, v) ==
    CASE name = "voltage" /\ dev = "DC" -> -10 <= v /\ v <= 10
      [] name = "voltage" /\ dev = "AC" -> 0 <= v /\ v <= 450
      [] name = "offset" -> -128 <= v /\ v <= 127
      [] name = "step" -> -32 <= v /\ v <= 31

DacRegister(d, name, c) ==
    CASE name = "voltage" -> d.volt[c]
      [] name = "offset" -> d.offset[c]
      [] name = "step" -> d.step[c]

\* C8: a set of voltage, offset or step with a value outside the static
\* range of the parameter raises ValueError, sends nothing and leaves every
\* register of the instrument as it was; a value within the range, the
\* bounds included, is sent in one command and is the register's new value.
C8_RangeChecked ==
    [][ (DacCall /\ dac'.op.name = "set") =>
          IF DocumentedRange(dac.dev, dac'.op.param, dac'.op.arg)
          THEN /\ dac'.err = "none"
               /\ Len(dac'.sent) = 1
               /\ DacRegister(dac', dac'.op.param, dac'.op.ch) = dac'.op.arg
          ELSE /\ dac'.err = "ValueError"
               /\ dac'.sent = <<>>
               /\ dac'.volt = dac.volt
               /\ dac'.offset = dac.offset
               /\ dac'.step = dac.step ]_vars

C8_Witness ==
    /\ dac.pc = "ready" /\ dac.dev = "DC"
    /\ dac.op.name = "set" /\ dac.op.param = "offset" /\ dac.op.arg = 128
    /\ dac.err = "ValueError" /\ dac.sent = <<>>
    /\ dac.volt[dac.op.ch] = 10 /\ dac.offset[dac.op.ch] = -128

\* C9: after reset() a read of the voltage of any channel returns 0,
\* whatever was set before; the DC DAC is sent *RST first and, after it,
\* OFFSET 0 and STEP 0 for each of its eight channels.
C9_ResetZero ==
    (dac.pc = "ready" /\ dac.op.name = "reset") =>
        /\ dac.err = "none"
        /\ \A c \in DacChans(dac.dev) : DacGetResult(dac, c).ret = 0
        /\ dac.sent[1] = Cmd("*RST", 0, 0)
        /\ dac.dev = "DC" =>
             \A c \in 1..8 :
                \E j, k \in 2..Len(dac.sent) :
                    /\ dac.sent[j] = Cmd("OFFSET", c, 0)
                    /\ dac.sent[k] = Cmd("STEP", c, 0)

C9_Witness ==
    /\ dac.pc = "ready" /\ dac.op.name = "reset" /\ dac.dev = "DC"
    /\ \E c \in 1..8 :
        /\ dac.lastSet[c].known /\ dac.lastSet[c].v = 10
        /\ dac.volt[c] = 0
    /\ \E c \in 1..8 : dac.offset[c] = 0 /\ dac.step[c] = 0

InstrumentChannels(dev) ==
    CASE dev = "GS820" -> {ChanName("channel", 1), ChanName("channel", 2)}
      [] dev = "DC" -> {ChanName("channel", i) : i \in 1..8}
      [] dev = "AC" -> {ChanName("ch", i) : i \in 1..4}

\* C11: a GS820 whose identification reports a model other than 765601,
\* 765602, 765611 and 765612 fails to construct with ValueError and has no
\* channels; a channel object is constructed only with the name of one of
\* the instrument's channels, and any other name raises ValueError.
C11_ConstructionChecked ==
    /\ (build.pc \in {"built", "failed"} /\ build.dev = "GS820"
          /\ build.idn \notin {"765601", "765602", "765611", "765612"}) =>
            /\ build.pc = "failed" /\ build.err = "ValueError"
            /\ build.channels = {} /\ build.objs = {}
    /\ build.pc = "built" =>
            /\ build.channels \subseteq InstrumentChannels(build.dev)
            /\ build.objs \subseteq InstrumentChannels(build.dev)
            /\ (build.nbuilt > 0 /\ build.last \notin InstrumentChannels(build.dev))
                  => build.err = "ValueError"

(***************************************************************************)
(* Properties of the GS820                                                 *)
(***************************************************************************)

GatedParams == {"voltage", "current", "voltage_range", "current_range"}

\* The message of the mode gate for an access of domain m in mode actual.
ModeMessage(m, actual) == [kind |-> "mode", required |-> m, actual |-> actual]

\* A set of voltage_range or current_range with a value that is not among
\* the ranges of the model.
UnknownRangeSet(y, op) ==
    /\ op.name = "set" /\ op.param \in {"voltage_range", "current_range"}
    /\ op.arg \notin (IF op.mode = "VOLT" THEN VRanges(y.model) ELSE IRanges(y.model))

C2_NoSwitchWhileOn ==
    [][ /\ (yoko'.op.name = "set" /\ yoko'.op.param = "source_mode"
              /\ yoko.ch[yoko'.op.ch].out = 1) =>
              LET c == yoko'.op.ch
              IN  /\ yoko'.err = "YokogawaGS200Exception"
                  /\ \A j \in 1..Len(yoko'.sent) : yoko'.sent[j].cmd # "SOUR:FUNC"
                  /\ yoko'.ch[c].mode = yoko.ch[c].mode
                  /\ yoko'.ch[c].rangeSrc = yoko.ch[c].rangeSrc
                  /\ yoko'.ch[c].levelSrc = yoko.ch[c].levelSrc
        /\ \A c \in YChans :
              yoko'.ch[c].func # yoko.ch[c].func => yoko.ch[c].out = 0 ]_vars

\* C12: a successful source_mode set on one channel makes that channel
\* source the mode set, at the instrument and in the driver, and leaves the
\* other channel as it was; a read of source_mode then returns the mode set
\* on the one channel and the unchanged mode on the other.
C12_IndependentModes ==
    [][ (yoko'.op.name = "set" /\ yoko'.op.param = "source_mode"
            /\ yoko'.err = "none") =>
          LET c == yoko'.op.ch
              m == yoko'.op.mode
          IN  /\ yoko'.ch[c].func = m /\ yoko'.ch[c].mode = m
              /\ YGetModeResult(yoko', c).ret = StrRet(m)
              /\ \A d \in YChans \ {c} :
                    /\ yoko'.ch[d] = yoko.ch[d]
                    /\ YGetModeResult(yoko', d).ret = StrRet(yoko.ch[d].func) ]_vars

C12_Witness ==
    /\ yoko.pc = "ready"
    /\ yoko.op.name = "set" /\ yoko.op.param = "source_mode"
    /\ yoko.op.ch = 2 /\ yoko.op.mode = "VOLT" /\ yoko.err = "none"
    /\ yoko.ch[1].func = "CURR" /\ yoko.ch[1].mode = "CURR"
    /\ yoko.ch[2].func = "VOLT" /\ yoko.ch[2].mode = "VOLT"

IsQuery(q) ==
    q.cmd \in {"OUTPUT:STATE?", "SOUR:FUNC?", "SOUR:RANGE?", "SOUR:RANGE:AUTO?",
               "SOUR:LEV?"}

C17_DelegatesFollowMode ==
    yoko.pc = "ready" =>
        \A c \in YChans :
            /\ yoko.ch[c].rangeSrc = yoko.ch[c].mode
            /\ yoko.ch[c].levelSrc = yoko.ch[c].mode

\* The parameters excluded from the snapshot in each mode, as documented.
ExcludedIn(m) ==
    IF m = "CURR" THEN {"voltage", "voltage_range"}
                  ELSE {"current", "current_range"}

\* C18: after construction and after every successful source_mode set,
\* voltage and voltage_range are excluded from the snapshot exactly when
\* the mode is CURR and current and current_range exactly when it is VOLT;
\* at any time exactly one of the two domains is included.
C18_SnapshotExclusion ==
    yoko.pc = "ready" =>
        /\ \A c \in YChans :
              /\ yoko.ch[c].excl \in {ExcludedIn("VOLT"), ExcludedIn("CURR")}
              /\ yoko.op.name = "none" =>
                    yoko.ch[c].excl = ExcludedIn(yoko.ch[c].mode)
        /\ (yoko.op.name = "set" /\ yoko.op.param = "source_mode"
              /\ yoko.err = "none") =>
                 /\ yoko.ch[yoko.op.ch].mode = yoko.op.mode
                 /\ yoko.ch[yoko.op.ch].func = yoko.op.mode
                 /\ yoko.ch[yoko.op.ch].excl = ExcludedIn(yoko.op.mode)

C18_Witness ==
    /\ yoko.pc = "ready"
    /\ yoko.op.name = "set" /\ yoko.op.param = "source_mode" /\ yoko.err = "none"
    /\ yoko.op.ch = 1 /\ yoko.op.mode = "CURR"
    /\ yoko.ch[1].excl = {"voltage", "voltage_range"}
    /\ yoko.ch[2].excl = {"current", "current_range"}

\* C19: in every state the source mode the gate of a channel compares
\* against (the latest value of source_mode) is the source mode of that
\* channel at the instrument.
C19_GateModeIsActual ==
    yoko.pc = "ready" =>
        \A c \in YChans : yoko.ch[c].mode = yoko.ch[c].func

(***************************************************************************)
(* Properties of the GS820's levels and ramps                              *)
(***************************************************************************)

\* The largest level the instrument sources in the domain m.
InstrumentMax(model, m) ==
    IF m = "VOLT" THEN SetMax(VRanges(model)) ELSE SetMax(IRanges(model))

\* The level has at most six significant digits.
SixDigits(v) ==
    Abs(v) < 1000000 \/ Abs(v) % Pow10(Digits(Abs(v)) - 6) = 0

RampReturned ==
    /\ yoko.pc = "ready" /\ yoko.op.name = "ramp" /\ yoko.err = "none"
    /\ yoko.ch[yoko.op.ch].auto = 1
    /\ Abs(yoko.op.arg) <= InstrumentMax(yoko.model, yoko.op.mode)

\* C13 as stated: with auto range on, after ramp_voltage or ramp_current
\* has returned, a read of the voltage or current returns the target, for
\* every target within the instrument's range.
C13_RampReachesTarget_Original ==
    RampReturned =>
        /\ YGetLevelResult(yoko, yoko.op.ch, yoko.op.mode).err = "none"
        /\ YGetLevelResult(yoko, yoko.op.ch, yoko.op.mode).ret = IntRet(yoko.op.arg)

\* C13 amended: with auto range on, after ramp_voltage or ramp_current has
\* returned, a read of the voltage or current returns the target, for every
\* starting level and every target within the instrument's range that has
\* at most six significant digits.
C13_RampReachesTarget ==
    (RampReturned /\ SixDigits(yoko.op.arg)) =>
        /\ YGetLevelResult(yoko, yoko.op.ch, yoko.op.mode).err = "none"
        /\ YGetLevelResult(yoko, yoko.op.ch, yoko.op.mode).ret = IntRet(yoko.op.arg)

C13_Witness ==
    /\ RampReturned /\ yoko.op.mode = "CURR" /\ yoko.op.arg = 12000000
    /\ yoko.ch[yoko.op.ch].lev["CURR"] = 12000000
    /\ \E j \in 1..Len(yoko.sent) :
          yoko.sent[j].cmd = "SOUR:LEV" /\ yoko.sent[j].arg = 4000000
    /\ \E j \in 1..Len(yoko.sent) :
          yoko.sent[j].cmd = "SOUR:LEV" /\ yoko.sent[j].arg = 8000000

\* C16: with auto range off, a set of the level succeeds only if the
\* magnitude of the value is smaller than the present range; otherwise it
\* raises ValueError, sends no SOUR:<mode>:LEV command and leaves the
\* instrument's level as it was.
C16_LevelBelowRange ==
    [][ (yoko'.op.name = "set" /\ yoko'.op.param \in {"voltage", "current"}
            /\ yoko.ch[yoko'.op.ch].auto = 0
            /\ yoko.ch[yoko'.op.ch].mode = yoko'.op.mode) =>
          LET c == yoko'.op.ch
              m == yoko'.op.mode
              below == Abs(yoko'.op.arg) < yoko.ch[c].rng[m]
          IN  /\ yoko'.err = "none" => below
              /\ ~below =>
                    /\ yoko'.err = "ValueError"
                    /\ \A j \in 1..Len(yoko'.sent) : yoko'.sent[j].cmd # "SOUR:LEV"
                    /\ yoko'.ch[c].lev = yoko.ch[c].lev ]_vars

\* C20: ramp_voltage and ramp_current leave step and inter_delay of
\* output_level as they were, whether the call returns or raises.
C20_RampSettingsRestored ==
    [][ yoko'.op.name = "ramp" =>
          /\ yoko'.ch[yoko'.op.ch].olStep = yoko.ch[yoko'.op.ch].olStep
          /\ yoko'.ch[yoko'.op.ch].olDelay = yoko.ch[yoko'.op.ch].olDelay ]_vars

\* C21: with auto range on, a set of the level is rejected with ValueError,
\* and no level command is sent, exactly when the magnitude of the value
\* exceeds the largest range of the active domain of the model: the largest
\* voltage range in VOLT mode, the largest current range in CURR mode.
C21_AutoRangeLimit ==
    [][ (yoko'.op.name = "set" /\ yoko'.op.param \in {"voltage", "current"}
            /\ yoko.ch[yoko'.op.ch].auto = 1
            /\ yoko.ch[yoko'.op.ch].mode = yoko'.op.mode) =>
          LET c == yoko'.op.ch
              m == yoko'.op.mode
              over == Abs(yoko'.op.arg) > InstrumentMax(yoko.model, m)
          IN  /\ (yoko'.err = "ValueError") <=> over
              /\ over => \A j \in 1..Len(yoko'.sent) :
                             yoko'.sent[j].cmd # "SOUR:LEV" ]_vars

(***************************************************************************)
(* paramp and a `final` of the wrong length                                *)
(***************************************************************************)

\* paramp was given a tuple of parameters and a tuple `final` of another
\* length, and has begun.
LengthsDiffer ==
    /\ ramp.pc \notin {"idle", "called"}
    /\ ramp.form = "tuple" /\ ramp.finalGiven /\ Len(ramp.final) # ramp.n

\* C24: given a tuple of parameters and a tuple `final` of a different
\* length, paramp raises ValueError before any parameter is read or set, so
\* no parameter changes.
C24_LengthMismatch ==
    LengthsDiffer =>
        /\ ramp.pc = "raised" /\ ramp.err = "ValueError"
        /\ ramp.reads = 0
        /\ \A j \in 1..ramp.n :
              ramp.applied[j] = <<>> /\ ramp.store[j] = Whole(ramp.init[j])

C24_Witness ==
    /\ LengthsDiffer /\ ramp.n = 2 /\ Len(ramp.final) = 1
    /\ ramp.pc = "raised" /\ ramp.steps = MaxSteps

(***************************************************************************)
(* Properties of the Keithley 6500                                         *)
(***************************************************************************)

\* The instrument's setting a boolean parameter reads, for the function the
\* instrument is in.
BoolSetting(p) ==
    IF p = "auto_range_enabled"
    THEN keithley.auto[ParseOutputString(keithley.func)]
    ELSE keithley.aver[ParseOutputString(keithley.func)]

\* C22: a read of auto_range_enabled or averaging_enabled returns True
\* exactly when the instrument's reply is 1 and False when it is 0, so a
\* read after a set to False returns False.
C22_BoolRead ==
    (keithley.pc = "ready" /\ keithley.op.name = "get"
        /\ keithley.op.param \in BoolParams /\ keithley.err = "none") =>
        keithley.ret = BoolRet(BoolSetting(keithley.op.param) = "1")

IsImpedance(q) ==
    q.cmd \in {":VOLT:DC:INPutimpedance", ":VOLT:DC:INPutimpedance?"}

\* The last call was a get or a set of input_impedance.
ImpedanceAccess ==
    keithley.pc = "ready" /\ keithley.op.param = "input_impedance"

\* The access was refused for the mode: a ValueError that names the mode
\* the instrument is in, and nothing sent about the impedance.
RefusedForMode ==
    /\ keithley.err = "ValueError"
    /\ keithley.msg.mode = KModeName(keithley.func)
    /\ \A j \in 1..Len(keithley.sent) : ~IsImpedance(keithley.sent[j])

\* C23 as stated: input_impedance can be read or set only in dc voltage
\* mode; in every other mode the access raises a ValueError whose message
\* names the current mode, and no INPutimpedance command or query is sent.
C23_ImpedanceGate_Original ==
    (ImpedanceAccess /\ keithley.func # "VOLT:DC") => RefusedForMode

\* C23 amended: input_impedance can be read, or set to "10" or "auto", only
\* in dc voltage mode, where the access sends the INPutimpedance query or
\* command; in every other mode such an access raises a ValueError whose
\* message names the current mode and sends no INPutimpedance command or
\* query.  A set of any other value raises the validator's ValueError in
\* every mode and sends nothing.
C23_ImpedanceGate ==
    ImpedanceAccess =>
        IF keithley.op.name = "set" /\ keithley.op.arg \notin {"10", "auto"}
        THEN keithley.err = "ValueError" /\ keithley.sent = <<>>
        ELSE IF keithley.func # "VOLT:DC"
        THEN RefusedForMode
        ELSE /\ keithley.err = "none"
             /\ IsImpedance(keithley.sent[Len(keithley.sent)])

C23_Witness ==
    /\ ImpedanceAccess /\ keithley.op.name = "set" /\ keithley.op.arg = "auto"
    /\ keithley.func = "VOLT:AC" /\ keithley.imp = "MOHM10"
    /\ keithley.err = "ValueError" /\ keithley.msg.mode = "ac voltage"
    /\ Len(keithley.sent) = 1 /\ keithley.sent[1].cmd = "SENS:FUNC?"

====
